---- MODULE Spec2Model ----
(***************************************************************************)
(* A model of the screener under src/: the decoders of the two            *)
(* fixed-record binary                                                     *)
(* formats (parse_tdx_day_file, parse_tdx_chip_data), the indicator        *)
(* functions (calculate_ma, check_box_break, check_ma_break,               *)
(* get_prev_trade_date) and the screening run stock_selection_tdx_auto     *)
(* as called from __main__.                                                *)
(*                                                                         *)
(* Representation.  A file is its sequence of bytes (0..255).  A price is  *)
(* held in hundredths, the numerator of raw/100.  Python floats are taken  *)
(* as exact rationals: every comparison is cross-multiplied, and the       *)
(* inputs stay off the exact ties where binary rounding could decide.      *)
(* A trade date after astype(str) is the sequence of its decimal digits,   *)
(* compared as Python compares strings.                                    *)
(***************************************************************************)
EXTENDS Integers, Sequences, FiniteSets, TLC

VARIABLES universe, repoExists, pc, basic_df, ts_codes, i, final_selected,
          outcome, log, arg, ret

vars == <<universe, repoExists, pc, basic_df, ts_codes, i, final_selected,
          outcome, log, arg, ret>>

(***************************************************************************)
(* Section 1 of the source: the configuration                              *)
(***************************************************************************)
TARGET_DATE_INT == 20251030
BOX_DAYS == 20
VOLUME_GROWTH_NUM == 3
VOLUME_GROWTH_DEN == 2
TURNOVER_RATE_THRESHOLD == 10
MARKET_CAP_THRESHOLD == 100
CHIP_CONCENTRATION == 70
MA_LIST == <<5, 10, 20>>
BREAK_MA_TYPE == "all"
DAY_RECORD_WIDTH == 32
CHIP_RECORD_WIDTH == 48
CAP_DIVISOR == 10000

(***************************************************************************)
(* Strings of digits                                                       *)
(***************************************************************************)
RECURSIVE Str(_)
Str(n) == IF n < 10 THEN <<n>> ELSE Append(Str(n \div 10), n % 10)

RECURSIVE StrLessFrom(_, _, _)
StrLessFrom(a, b, k) ==
    IF k > Len(b) THEN FALSE
    ELSE IF k > Len(a) THEN TRUE
    ELSE IF a[k] # b[k] THEN a[k] < b[k]
    ELSE StrLessFrom(a, b, k + 1)

StrLess(a, b) == StrLessFrom(a, b, 1)

RECURSIVE StrToInt(_)
StrToInt(s) ==
    IF Len(s) = 0 THEN 0 ELSE 10 * StrToInt(SubSeq(s, 1, Len(s) - 1)) + s[Len(s)]

TARGET_DATE == Str(TARGET_DATE_INT)

(***************************************************************************)
(* struct.unpack                                                           *)
(***************************************************************************)
UnpackI(b) == b[1] + 256 * b[2] + 65536 * b[3] + 16777216 * b[4]

RECURSIVE Pow2(_)
Pow2(n) == IF n = 0 THEN 1 ELSE 2 * Pow2(n - 1)

\* A float32: sign bit, 8 exponent bits, 23 fraction bits.  The value of a
\* normal number is (2^23 + fraction) * 2^(exponent - 150), held as num/den;
\* an infinity is +-1/0 and a NaN is 0/0.
UnpackF(b) ==
    LET bits     == b[1] + 256 * b[2] + 65536 * b[3]
        hi       == b[4]
        sign     == hi \div 128
        exponent == (hi % 128) * 2 + (bits \div 8388608)
        fraction == bits % 8388608
        s        == IF sign = 1 THEN -1 ELSE 1
    IN  IF exponent = 255
            THEN [num |-> IF fraction = 0 THEN s ELSE 0, den |-> 0]
        ELSE IF exponent = 0 /\ fraction = 0
            THEN [num |-> 0, den |-> 1]
        ELSE IF exponent >= 150
            THEN [num |-> s * (8388608 + fraction) * Pow2(exponent - 150), den |-> 1]
        ELSE [num |-> s * (8388608 + fraction), den |-> Pow2(150 - exponent)]

(***************************************************************************)
(* f.read(n) at offset pos of a stream                                     *)
(***************************************************************************)
Min(a, b) == IF a < b THEN a ELSE b

Read(bytes, pos, n) == SubSeq(bytes, pos + 1, Min(pos + n, Len(bytes)))

(***************************************************************************)
(* parse_tdx_day_file                                                      *)
(***************************************************************************)
UnpackDayRecord(record) ==
    [date   |-> UnpackI(SubSeq(record, 1, 4)),
     open   |-> UnpackI(SubSeq(record, 5, 8)),
     high   |-> UnpackI(SubSeq(record, 9, 12)),
     low    |-> UnpackI(SubSeq(record, 13, 16)),
     close  |-> UnpackI(SubSeq(record, 17, 20)),
     vol    |-> UnpackI(SubSeq(record, 21, 24)),
     amount |-> UnpackI(SubSeq(record, 25, 28))]

\* The short chunk is appended like a full one (the length test is missing).
RECURSIVE DayDecodeLoopNoLengthTest(_, _, _)
DayDecodeLoopNoLengthTest(bytes, pos, data) ==
    LET record == Read(bytes, pos, DAY_RECORD_WIDTH)
    IN  IF Len(record) = 0 THEN data
        ELSE DayDecodeLoopNoLengthTest(bytes, pos + Len(record),
                 Append(data, UnpackDayRecord(
                     record \o [k \in 1..(DAY_RECORD_WIDTH - Len(record)) |-> 0])))

\* while True: record = f.read(32); break on b""; continue on a short chunk.
RECURSIVE DayDecodeLoop(_, _, _)
DayDecodeLoop(bytes, pos, data) ==
    LET record == Read(bytes, pos, DAY_RECORD_WIDTH)
    IN  IF Len(record) = 0 THEN data
        ELSE IF Len(record) # DAY_RECORD_WIDTH
            THEN DayDecodeLoop(bytes, pos + Len(record), data)
        ELSE DayDecodeLoop(bytes, pos + Len(record),
                           Append(data, UnpackDayRecord(record)))

\* df["trade_date"].astype(str)
DayFrame(data) ==
    [k \in 1..Len(data) |->
        [trade_date |-> Str(data[k].date), close |-> data[k].close,
         vol |-> data[k].vol, amount |-> data[k].amount]]

\* sort_values("trade_date"): ascending by the string key.  Rows with equal
\* keys keep their file order here (the order pandas gives them is not fixed).
RECURSIVE InsertRow(_, _)
InsertRow(sorted, row) ==
    IF Len(sorted) = 0 THEN <<row>>
    ELSE IF StrLess(row.trade_date, sorted[Len(sorted)].trade_date)
        THEN Append(InsertRow(SubSeq(sorted, 1, Len(sorted) - 1), row),
                    sorted[Len(sorted)])
    ELSE Append(sorted, row)

RECURSIVE SortFrom(_, _, _)
SortFrom(df, k, acc) ==
    IF k > Len(df) THEN acc ELSE SortFrom(df, k + 1, InsertRow(acc, df[k]))

sort_values(df) == SortFrom(df, 1, <<>>)

parse_tdx_day_file(bytes) == sort_values(DayFrame(DayDecodeLoop(bytes, 0, <<>>)))

(***************************************************************************)
(* parse_tdx_chip_data                                                     *)
(***************************************************************************)
UnpackChipRecord(record) ==
    [date             |-> UnpackI(SubSeq(record, 1, 4)),
     concentration_70 |-> UnpackF(SubSeq(record, 25, 28))]

RECURSIVE ChipDecodeLoop(_, _, _)
ChipDecodeLoop(bytes, pos, data) ==
    LET record == Read(bytes, pos, CHIP_RECORD_WIDTH)
    IN  IF Len(record) = 0 THEN data
        ELSE IF Len(record) # CHIP_RECORD_WIDTH
            THEN ChipDecodeLoop(bytes, pos + Len(record), data)
        ELSE ChipDecodeLoop(bytes, pos + Len(record),
                            Append(data, UnpackChipRecord(record)))

\* Python's None, and a value that is not None
NoneValue == [kind |-> "None"]

Some(v) == [kind |-> "Some", v |-> v]

\* A path of the file system: absent, or a file with its bytes
NoFile == [exists |-> FALSE, bytes |-> <<>>]

File(bytes) == [exists |-> TRUE, bytes |-> bytes]

parse_tdx_chip_data(chip_file, target_date) ==
    IF ~chip_file.exists THEN NoneValue
    ELSE LET data == ChipDecodeLoop(chip_file.bytes, 0, <<>>)
             target_chip == SelectSeq(data, LAMBDA r : Str(r.date) = target_date)
         IN  IF Len(target_chip) > 0 THEN Some(target_chip[1].concentration_70)
             ELSE NoneValue

(***************************************************************************)
(* Numbers.  A float is a rational num/den with den >= 0; +-1/0 is the     *)
(* infinity numpy gives for a division by zero, and 0/0 is NaN, for which  *)
(* every comparison is false.                                              *)
(***************************************************************************)
Rat(n, d) == [num |-> n, den |-> d]

IsNaN(x) == x.num = 0 /\ x.den = 0

\* x < y on floats
RatLess(x, y) ==
    IF IsNaN(x) \/ IsNaN(y) THEN FALSE
    ELSE IF x.den = 0 THEN x.num < 0 /\ ~(y.den = 0 /\ y.num < 0)
    ELSE IF y.den = 0 THEN y.num > 0
    ELSE x.num * y.den < y.num * x.den

\* round(x, 2), in hundredths: the nearest, a tie going to the even one
Round2(x) ==
    LET scaled == x.num * 100
        q      == scaled \div x.den
        r      == scaled % x.den
    IN  IF 2 * r > x.den THEN q + 1
        ELSE IF 2 * r < x.den THEN q
        ELSE IF q % 2 = 0 THEN q ELSE q + 1

RECURSIVE SumClose(_, _, _)
SumClose(df, lo, hi) == IF lo > hi THEN 0 ELSE df[hi].close + SumClose(df, lo, hi - 1)

RECURSIVE MaxClose(_, _)
MaxClose(df, hi) ==
    IF hi = 1 THEN df[1].close
    ELSE LET m == MaxClose(df, hi - 1) IN IF df[hi].close > m THEN df[hi].close ELSE m

SeqToSet(s) == {s[k] : k \in 1..Len(s)}

\* trade_dates.index(target_date): the first position, 0 when absent
RECURSIVE IndexFrom(_, _, _)
IndexFrom(df, date, k) ==
    IF k > Len(df) THEN 0
    ELSE IF df[k].trade_date = date THEN k
    ELSE IndexFrom(df, date, k + 1)

IndexOf(df, date) == IndexFrom(df, date, 1)

(***************************************************************************)
(* calculate_ma: rolling(window=period, min_periods=period).mean(), the    *)
(* value sum/period in hundredths, NaN on the first period-1 rows          *)
(***************************************************************************)
NaN == Rat(0, 0)

RollingMean(df, k, period) ==
    IF k < period THEN NaN ELSE Rat(SumClose(df, k - period + 1, k), period)

calculate_ma(df, ma_periods) ==
    [k \in 1..Len(df) |->
        [trade_date |-> df[k].trade_date, close |-> df[k].close,
         vol |-> df[k].vol, amount |-> df[k].amount,
         ma |-> [p \in SeqToSet(ma_periods) |-> RollingMean(df, k, p)]]]

(***************************************************************************)
(* check_box_break: the tuple it returns, of length 2 or 3                 *)
(***************************************************************************)
TailRows(df, n) == IF Len(df) <= n THEN df ELSE SubSeq(df, Len(df) - n + 1, Len(df))

\* The window is taken up to and including the target date.
check_box_break_inclusive(df, target_date, box_days) ==
    LET df_target == TailRows(SelectSeq(df, LAMBDA r :
                             ~StrLess(target_date, r.trade_date)), box_days)
    IN  IF Len(df_target) < box_days THEN <<FALSE, Rat(0, 1)>>
        ELSE LET box_upper    == MaxClose(df_target, Len(df_target))
                 target_close == df[IndexOf(df, target_date)].close
                 is_break     == target_close * 1000 > box_upper * 1005
                 break_ratio  == IF is_break
                                     THEN Rat((target_close - box_upper) * 100, box_upper)
                                     ELSE Rat(0, 1)
             IN  <<is_break, box_upper, break_ratio>>

check_box_break(df, target_date, box_days) ==
    LET df_target == TailRows(SelectSeq(df, LAMBDA r :
                             StrLess(r.trade_date, target_date)), box_days)
    IN  IF Len(df_target) < box_days THEN <<FALSE, Rat(0, 1)>>
        ELSE LET box_upper    == MaxClose(df_target, Len(df_target))
                 target_close == df[IndexOf(df, target_date)].close
                 is_break     == target_close * 1000 > box_upper * 1005
                 break_ratio  == IF is_break
                                     THEN Rat((target_close - box_upper) * 100, box_upper)
                                     ELSE Rat(0, 1)
             IN  <<is_break, box_upper, break_ratio>>

(***************************************************************************)
(* check_ma_break                                                          *)
(***************************************************************************)
check_ma_break(stock_df, target_date, ma_list, break_type) ==
    LET idx == IndexOf(stock_df, target_date)
    IN  IF idx = 0 THEN FALSE
        ELSE LET target_close == Rat(stock_df[idx].close, 1)
                 above(p)     == RatLess(stock_df[idx].ma[p], target_close)
             IN  IF break_type = "all"
                     THEN \A k \in 1..Len(ma_list) : above(ma_list[k])
                 ELSE IF break_type = "any"
                     THEN \E k \in 1..Len(ma_list) : above(ma_list[k])
                 ELSE FALSE

(***************************************************************************)
(* get_prev_trade_date                                                     *)
(***************************************************************************)
get_prev_trade_date(df, target_date) ==
    LET target_idx == IndexOf(df, target_date)
    IN  IF target_idx = 0 THEN NoneValue
        ELSE IF target_idx > 1 THEN Some(df[target_idx - 1].trade_date)
        ELSE NoneValue

RatLE(x, y) == ~IsNaN(x) /\ ~IsNaN(y) /\ ~RatLess(y, x)

(***************************************************************************)
(* get_stock_basic_info: the rows of stock_basic.csv whose code starts     *)
(* with 60, 00 or 30, the market cap divided by 10000, and the three       *)
(* columns the function returns.  A row is a function of its column names. *)
(***************************************************************************)
CsvColumns ==
    {"ts_code", "name", "circulating_share", "total_share",
     "circulating_market_cap", "total_market_cap", "industry", "region",
     "list_date"}

ReturnedColumns == {"ts_code", "name", "circulating_market_cap"}

MatchesAShare(ts_code) ==
    SubSeq(ts_code, 1, 2) \in {<<6, 0>>, <<0, 0>>, <<3, 0>>}

get_stock_basic_info(csv) ==
    LET df == SelectSeq(csv, LAMBDA r : MatchesAShare(r["ts_code"]))
    IN  [k \in 1..Len(df) |->
            [c \in ReturnedColumns |->
                IF c = "circulating_market_cap"
                    THEN Rat(df[k][c], CAP_DIVISOR)
                    ELSE df[k][c]]]

\* No row is filtered out by its market cap.
CapFilterKeepsAll(df) == df

\* basic_df[basic_df["circulating_market_cap"] <= MARKET_CAP_THRESHOLD]
CapFilter(df) ==
    SelectSeq(df, LAMBDA r :
        RatLE(r["circulating_market_cap"], Rat(MARKET_CAP_THRESHOLD, 1)))

\* basic_df[basic_df["ts_code"] == ts_code][column].iloc[0]
HasColumn(df, column) == \A k \in 1..Len(df) : column \in DOMAIN df[k]

Lookup(df, ts_code, column) ==
    SelectSeq(df, LAMBDA r : r["ts_code"] = ts_code)[1][column]

(***************************************************************************)
(* The body of the loop of stock_selection_tdx_auto for one ts_code.  The  *)
(* context c holds the locals of the body; c.status is "run" while the     *)
(* body goes on, "continue" after a continue, "raise" once an exception    *)
(* leaves the body; c.steps lists what was executed.                       *)
(***************************************************************************)
Locals(ts_code, df, day_file, chip_file) ==
    [status |-> "run", exc |-> "none", stage |-> 0, steps |-> <<>>,
     ts_code |-> ts_code, basic_df |-> df,
     day_file |-> day_file, chip_file |-> chip_file,
     day_df |-> <<>>, prev_date |-> NoneValue, target_idx |-> 0,
     target_close |-> 0, target_vol |-> 0, prev_vol |-> 0,
     circulating_market_cap |-> NaN, stock_name |-> "",
     turnover_rate |-> NaN, volume_growth |-> NaN,
     chip_concentration |-> NoneValue, box |-> <<>>]

Did(c, step) == [c EXCEPT !.steps = Append(@, step)]

Continue(c, stage) == [c EXCEPT !.status = "continue", !.stage = stage]

Raise(c, stage, exc) == [c EXCEPT !.status = "raise", !.stage = stage, !.exc = exc]

\* line 171, applied to the row of one instrument
StageCap(c) ==
    LET d == Did(c, "cap_check")
    IN  IF RatLE(Lookup(c.basic_df, c.ts_code, "circulating_market_cap"),
                 Rat(MARKET_CAP_THRESHOLD, 1))
            THEN d ELSE Continue(d, 1)

\* lines 189-201
StageSeries(c) ==
    LET d0 == Did(c, "glob")
    IN  IF ~c.day_file.exists THEN Continue(d0, 2)
        ELSE LET day_df == parse_tdx_day_file(c.day_file.bytes)
                 d1     == [Did(d0, "parse_day") EXCEPT !.day_df = day_df]
             IN  IF IndexOf(day_df, TARGET_DATE) = 0 THEN Continue(d1, 2)
                 ELSE LET prev_date == get_prev_trade_date(day_df, TARGET_DATE)
                          d2 == [Did(d1, "prev_date") EXCEPT
                                    !.prev_date = prev_date,
                                    !.target_idx = IndexOf(day_df, TARGET_DATE)]
                      IN  IF prev_date = NoneValue THEN Continue(d2, 2) ELSE d2

\* lines 204-208
StageMa(c) ==
    LET day_df     == calculate_ma(c.day_df, MA_LIST)
        d          == [Did(c, "calculate_ma") EXCEPT !.day_df = day_df]
        target_row == day_df[c.target_idx]
    IN  IF \E k \in 1..Len(MA_LIST) : IsNaN(target_row.ma[MA_LIST[k]])
            THEN Continue(d, 3) ELSE d

\* lines 211-216
Extract(c) ==
    LET target_row == c.day_df[c.target_idx]
        d == [Did(c, "extract") EXCEPT
                 !.target_close = target_row.close,
                 !.target_vol = target_row.vol,
                 !.prev_vol = c.day_df[IndexOf(c.day_df, c.prev_date.v)].vol]
    IN  IF ~HasColumn(c.basic_df, "circulating_market_cap") \/
           ~HasColumn(c.basic_df, "name")
            THEN Raise(d, 0, "KeyError")
        ELSE [d EXCEPT
                 !.circulating_market_cap =
                     Lookup(c.basic_df, c.ts_code, "circulating_market_cap"),
                 !.stock_name = Lookup(c.basic_df, c.ts_code, "name")]

\* lines 219-220
TurnoverRate(c) ==
    LET d == Did(c, "turnover_lookup")
    IN  IF ~HasColumn(c.basic_df, "circulating_share")
            THEN Raise(d, 5, "KeyError")
        ELSE [Did(d, "turnover_rate") EXCEPT
                 !.turnover_rate =
                     Rat(c.target_vol * 100,
                         Lookup(c.basic_df, c.ts_code, "circulating_share"))]

\* lines 224-226
StageVolume(c) ==
    LET volume_growth == Rat(c.target_vol, c.prev_vol)
        d == [Did(c, "volume_check") EXCEPT !.volume_growth = volume_growth]
    IN  IF RatLess(volume_growth, Rat(VOLUME_GROWTH_NUM, VOLUME_GROWTH_DEN))
            THEN Continue(d, 4) ELSE d

\* lines 229-230
StageTurnover(c) ==
    LET d == Did(c, "turnover_check")
    IN  IF RatLess(c.turnover_rate, Rat(TURNOVER_RATE_THRESHOLD, 1))
            THEN Continue(d, 5) ELSE d

\* lines 233-235: "not chip_concentration" is true of None and of 0.0
StageChip(c) ==
    LET chip == parse_tdx_chip_data(c.chip_file, TARGET_DATE)
        d0   == Did(c, "parse_tdx_chip_data")
        d    == [(IF c.chip_file.exists THEN Did(d0, "open_chip") ELSE d0)
                    EXCEPT !.chip_concentration = chip]
    IN  IF chip = NoneValue THEN Continue(d, 6)
        ELSE IF chip.v.num = 0 /\ chip.v.den # 0 THEN Continue(d, 6)
        ELSE IF RatLess(chip.v, Rat(CHIP_CONCENTRATION, 1)) THEN Continue(d, 6)
        ELSE d

\* lines 238-240: the tuple is unpacked into three names
StageBox(c) ==
    LET t == check_box_break(c.day_df, TARGET_DATE, BOX_DAYS)
        d == [Did(c, "check_box_break") EXCEPT !.box = t]
    IN  IF Len(t) # 3 THEN Raise(d, 7, "ValueError")
        ELSE IF ~t[1] THEN Continue(d, 7)
        ELSE d

\* lines 243-244
StageMaBreak(c) ==
    LET d == Did(c, "check_ma_break")
    IN  IF ~check_ma_break(c.day_df, TARGET_DATE, MA_LIST, BREAK_MA_TYPE)
            THEN Continue(d, 8) ELSE d

\* lines 247-260: the entry, its numbers rounded to hundredths
Entry(c) ==
    LET target_row == c.day_df[c.target_idx]
        ma(p) == IF p \in SeqToSet(MA_LIST) THEN Round2(Rat(target_row.ma[p].num,
                                                   target_row.ma[p].den * 100))
                 ELSE -1
    IN  [ts_code |-> c.ts_code, name |-> c.stock_name,
         circulating_market_cap |-> Round2(c.circulating_market_cap),
         close |-> c.target_close,
         ma5 |-> ma(5), ma10 |-> ma(10), ma20 |-> ma(20),
         volume_growth_pct |->
             Round2(Rat((c.volume_growth.num - c.volume_growth.den) * 100,
                        c.volume_growth.den)),
         turnover_rate |-> Round2(c.turnover_rate),
         chip_concentration |-> Round2(c.chip_concentration.v),
         box_upper |-> c.box[2], break_ratio |-> Round2(c.box[3])]

Step(name, c) ==
    CASE name = "cap"           -> StageCap(c)
      [] name = "series"        -> StageSeries(c)
      [] name = "ma"            -> StageMa(c)
      [] name = "extract"       -> Extract(c)
      [] name = "turnover_rate" -> TurnoverRate(c)
      [] name = "volume"        -> StageVolume(c)
      [] name = "turnover"      -> StageTurnover(c)
      [] name = "chip"          -> StageChip(c)
      [] name = "box"           -> StageBox(c)
      [] name = "ma_break"      -> StageMaBreak(c)

RECURSIVE RunSteps(_, _, _)
RunSteps(order, k, c) ==
    IF k > Len(order) \/ c.status # "run" THEN c
    ELSE RunSteps(order, k + 1, Step(order[k], c))

\* The turnover rate is looked up and computed after the volume check.
LoopBodyOrderLazyTurnover ==
    <<"series", "ma", "extract", "volume", "turnover_rate", "turnover", "chip",
      "box", "ma_break">>

\* The order of the statements of the loop body, lines 188-244
LoopBodyOrder ==
    <<"series", "ma", "extract", "turnover_rate", "volume", "turnover", "chip",
      "box", "ma_break">>

(***************************************************************************)
(* The files the run reads.  The layouts are those of the comments at      *)
(* lines 48-49 and 104 of the source: little-endian 32-bit fields.         *)
(***************************************************************************)
LE32(n) ==
    <<n % 256, (n \div 256) % 256, (n \div 65536) % 256, (n \div 16777216) % 256>>

EncodeDay(r) ==
    LE32(r.date) \o LE32(r.open) \o LE32(r.high) \o LE32(r.low) \o LE32(r.close)
        \o LE32(r.vol) \o LE32(r.amount) \o <<0, 0, 0, 0>>

\* bits: the 32 bits of the float32 at offset 24
EncodeChip(r) ==
    LE32(r.date) \o [k \in 1..20 |-> 0] \o LE32(r.bits) \o [k \in 1..20 |-> 0]

\* The concatenation of chunks of the same width
Flatten(chunks, width) ==
    [k \in 1..(Len(chunks) * width) |->
        chunks[((k - 1) \div width) + 1][((k - 1) % width) + 1]]

Reverse(s) == [k \in 1..Len(s) |-> s[Len(s) + 1 - k]]

\* Stray bytes; 127 keeps four of them, read as one field, within TLC's integers
Garbage(n) == [k \in 1..n |-> 127]

DayRecord(date, close, vol) ==
    [date |-> date, open |-> close, high |-> close, low |-> close,
     close |-> close, vol |-> vol, amount |-> 0]

\* A daily series: n bars on the n calendar days before the target date, all
\* closing at `base` but the one `spike` days before the target, then the
\* target bar when hasTarget, then `after` later bars; in the file in
\* ascending or descending order, the first bar written twice when dup, and
\* `tail` stray bytes at the end.
SeriesRecords(s) ==
    LET before == [j \in 1..s.n |->
                      DayRecord(TARGET_DATE_INT - (s.n - j + 1),
                                IF s.spike = s.n - j + 1 THEN s.spikeClose
                                                         ELSE s.base,
                                IF j = s.n THEN s.prevVol ELSE s.baseVol)]
        target == IF s.hasTarget
                      THEN <<DayRecord(TARGET_DATE_INT, s.targetClose, s.targetVol)>>
                      ELSE <<>>
        later  == [j \in 1..s.after |->
                      DayRecord(TARGET_DATE_INT + j, s.afterClose, s.baseVol)]
        asc    == before \o target \o later
        all    == IF s.dup /\ Len(asc) > 0 THEN Append(asc, asc[1]) ELSE asc
    IN  IF s.order = "desc" THEN Reverse(all) ELSE all

DayFileOf(s) ==
    IF ~s.present THEN NoFile
    ELSE LET records == SeriesRecords(s)
         IN  File(Flatten([k \in 1..Len(records) |-> EncodeDay(records[k])],
                          DAY_RECORD_WIDTH) \o Garbage(s.tail))

\* float32 bit patterns: 85.0, 70.0, 69.5, 0.0 and a quiet NaN
FloatBits ==
    [f85 |-> 1118437376, f70 |-> 1116471296, f69_5 |-> 1116405760, zero |-> 0,
     nan |-> 2143289344]

\* A concentration file: a sample the day before the target and, when
\* hasTarget, one on the target date carrying `bits`.
ChipRecords(ch) ==
    <<[date |-> TARGET_DATE_INT - 1, bits |-> FloatBits.f85]>> \o
    (IF ch.hasTarget THEN <<[date |-> TARGET_DATE_INT, bits |-> ch.bits]>> ELSE <<>>)

ChipFileOf(ch) ==
    IF ~ch.present THEN NoFile
    ELSE LET records == ChipRecords(ch)
         IN  File(Flatten([k \in 1..Len(records) |-> EncodeChip(records[k])],
                          CHIP_RECORD_WIDTH) \o Garbage(ch.tail))

Series ==
    [present |-> TRUE, n |-> 25, hasTarget |-> TRUE, after |-> 1, spike |-> 0,
     base |-> 1000, baseVol |-> 100, afterClose |-> 2000,
     spikeClose |-> 1100, targetClose |-> 1010, prevVol |-> 100,
     targetVol |-> 200, order |-> "asc", dup |-> FALSE, tail |-> 0]

Chip == [present |-> TRUE, hasTarget |-> TRUE, bits |-> FloatBits.f85, tail |-> 0]

\* An instrument: a row of stock_basic.csv and its two files
Instrument ==
    [prefix |-> <<6, 0>>, cap |-> 500000, share |-> 1000, day |-> Series,
     chip |-> Chip]

Kinds ==
    { Instrument,
      [Instrument EXCEPT !.day.targetVol = 100],
      [Instrument EXCEPT !.cap = 1500000],
      [Instrument EXCEPT !.cap = 1000000, !.day.present = FALSE],
      [Instrument EXCEPT !.day.hasTarget = FALSE, !.day.order = "desc"],
      [Instrument EXCEPT !.day.n = 0],
      [Instrument EXCEPT !.day.n = 10, !.day.tail = 7],
      [Instrument EXCEPT !.prefix = <<9, 0>>] }

Code(k, kind) == kind.prefix \o <<0, 0, 0, k>>

CsvRow(k, kind) ==
    [ts_code |-> Code(k, kind), name |-> "stock",
     circulating_share |-> kind.share, total_share |-> kind.share,
     circulating_market_cap |-> kind.cap, total_market_cap |-> kind.cap,
     industry |-> "-", region |-> "-", list_date |-> 20000101]

Csv(u) == [k \in 1..Len(u) |-> CsvRow(k, u[k])]

\* glob(DAY_DATA_PATH/ts_code*.day)[0] and CHIP_DATA_PATH/ts_code.chip
IndexOfCode(u, ts_code) == CHOOSE k \in 1..Len(u) : Code(k, u[k]) = ts_code

DayPath(u, ts_code) == DayFileOf(u[IndexOfCode(u, ts_code)].day)

ChipPath(u, ts_code) == ChipFileOf(u[IndexOfCode(u, ts_code)].chip)

(***************************************************************************)
(* stock_selection_tdx_auto, called from __main__                          *)
(***************************************************************************)
NumInstruments == 3

Universes == [1..NumInstruments -> Kinds]

CodesOf(u) == {Code(k, u[k]) : k \in 1..Len(u)}

NotRun == [status |-> "none", exc |-> "none", stage |-> 0, steps |-> <<>>]

Idle ==
    /\ arg = NoneValue
    /\ ret = NoneValue

Init ==
    /\ universe \in Universes
    /\ repoExists \in BOOLEAN
    /\ pc = "start"
    /\ basic_df = <<>>
    /\ ts_codes = <<>>
    /\ i = 0
    /\ final_selected = <<>>
    /\ outcome = "running"
    /\ log = [c \in CodesOf(universe) |-> NotRun]
    /\ Idle

\* lines 168-182: FileNotFoundError is caught at line 177
Start ==
    /\ pc = "start"
    /\ IF ~repoExists
          THEN /\ outcome' = "repository_failed"
               /\ pc' = "done"
               /\ UNCHANGED <<basic_df, ts_codes>>
          ELSE LET df == CapFilter(get_stock_basic_info(Csv(universe)))
               IN  /\ basic_df' = df
                   /\ ts_codes' = [k \in 1..Len(df) |-> df[k]["ts_code"]]
                   /\ IF Len(df) = 0
                         THEN outcome' = "no_candidates" /\ pc' = "done"
                         ELSE outcome' = outcome /\ pc' = "loop"
    /\ UNCHANGED <<universe, repoExists, i, final_selected, log, arg, ret>>

\* lines 184-260, one iteration; an exception leaves the function and is
\* caught at line 280
LoopBody ==
    /\ pc = "loop"
    /\ i < Len(ts_codes)
    /\ \E c \in {RunSteps(LoopBodyOrder, 1,
                         Locals(ts_codes[i + 1], basic_df,
                                DayPath(universe, ts_codes[i + 1]),
                                ChipPath(universe, ts_codes[i + 1])))} :
       LET ts_code == ts_codes[i + 1]
       IN  /\ log' = [log EXCEPT ![ts_code] =
                         [status |-> IF c.status = "run" THEN "append" ELSE c.status,
                          exc |-> c.exc, stage |-> c.stage, steps |-> c.steps]]
           /\ IF c.status = "raise"
                 THEN /\ pc' = "done"
                      /\ outcome' = "aborted"
                      /\ UNCHANGED <<i, final_selected>>
                 ELSE /\ i' = i + 1
                      /\ final_selected' =
                            IF c.status = "run"
                                THEN Append(final_selected, Entry(c))
                                ELSE final_selected
                      /\ UNCHANGED <<pc, outcome>>
    /\ UNCHANGED <<universe, repoExists, basic_df, ts_codes, arg, ret>>

\* lines 262-274
Report ==
    /\ pc = "loop"
    /\ i = Len(ts_codes)
    /\ pc' = "done"
    /\ outcome' = "results"
    /\ UNCHANGED <<universe, repoExists, basic_df, ts_codes, i, final_selected,
                   log, arg, ret>>

Next == Start \/ LoopBody \/ Report

Spec == Init /\ [][Next]_vars

(***************************************************************************)
(* What the inputs are, read off their descriptions and not off the run:   *)
(* the stage of the chain of section 4.3 that an instrument fails first    *)
(***************************************************************************)
PriorBars(s) == s.n + (IF s.dup /\ s.n > 0 THEN 1 ELSE 0)

AboveCap(kind) == kind.cap > MARKET_CAP_THRESHOLD * CAP_DIVISOR

SeriesAvailable(s) == s.present /\ s.hasTarget /\ PriorBars(s) >= 1

AveragesDefined(s) == \A k \in 1..Len(MA_LIST) : PriorBars(s) + 1 >= MA_LIST[k]

GrowthReached(s) == s.targetVol * VOLUME_GROWTH_DEN >= VOLUME_GROWTH_NUM * s.prevVol

TurnoverReached(kind) ==
    kind.day.targetVol * 100 >= TURNOVER_RATE_THRESHOLD * kind.share

\* 6 stands for "none of the stages 1 to 5"
FirstFailedStage(kind) ==
    IF AboveCap(kind) THEN 1
    ELSE IF ~SeriesAvailable(kind.day) THEN 2
    ELSE IF ~AveragesDefined(kind.day) THEN 3
    ELSE IF ~GrowthReached(kind.day) THEN 4
    ELSE IF ~TurnoverReached(kind) THEN 5
    ELSE 6

LogOf(k) == log[Code(k, universe[k])]

Processed(k) == LogOf(k).status # "none"

StepsOf(k) == SeqToSet(LogOf(k).steps)

\* The stage each executed step belongs to, with the turnover lookup and
\* computation counted in the turnover stage
StageOfStep ==
    [glob |-> 2, parse_day |-> 2, prev_date |-> 2, calculate_ma |-> 3,
     extract |-> 4, volume_check |-> 4, turnover_lookup |-> 5,
     turnover_rate |-> 5, turnover_check |-> 5, parse_tdx_chip_data |-> 6,
     open_chip |-> 6, check_box_break |-> 7, check_ma_break |-> 8]

\* The same, with the turnover lookup and computation counted in the data
\* extraction that precedes the volume check
StageOfStepAsCoded ==
    [StageOfStep EXCEPT !.turnover_lookup = 4, !.turnover_rate = 4]

(***************************************************************************)
(* Claims about the run                                                    *)
(***************************************************************************)

\* C1: every entry of final_selected belongs to an instrument that fails none
\* of the stages, and an entry once appended stays as it is.  The lookup of
\* line 219 raises before any entry can be appended (NoEntryAppended holds
\* of every reachable state), so the run never puts the claim to the test.
C1_EntriesPassedAllStages ==
    \A e \in 1..Len(final_selected) :
        \E k \in 1..Len(universe) :
            /\ final_selected[e].ts_code = Code(k, universe[k])
            /\ FirstFailedStage(universe[k]) = 6
            /\ LogOf(k).status = "append"

NoEntryAppended == final_selected = <<>>

\* C2: an instrument whose circulating market cap exceeds the cap threshold
\* never has its daily-bar file or its concentration file decoded.
C2_NoDecodeAboveCap ==
    \A k \in 1..Len(universe) :
        AboveCap(universe[k]) =>
            StepsOf(k) \cap {"glob", "parse_day", "parse_tdx_chip_data", "open_chip"} = {}

\* C2 witness: the run has ended, an instrument above the cap has a daily-bar
\* file, and the file of another instrument was decoded.
C2_Witness ==
    /\ pc = "done"
    /\ \E k \in 1..Len(universe) :
          /\ AboveCap(universe[k])
          /\ MatchesAShare(Code(k, universe[k]))
          /\ universe[k].day.present
    /\ \E k \in 1..Len(universe) : "parse_day" \in StepsOf(k)

\* C3: the run ends with a result collection (possibly empty) after every
\* candidate was processed, or with the message about the repository, which
\* only a repository that cannot be loaded produces.
C3_OnlyRepositoryAborts ==
    pc = "done" =>
        /\ outcome \in {"results", "no_candidates", "repository_failed"}
        /\ outcome = "repository_failed" => ~repoExists
        /\ outcome = "results" =>
              \A k \in 1..Len(ts_codes) : log[ts_codes[k]].status # "none"

\* C7: for every instrument that passes the cap, series-availability and
\* moving-average stages, the lookup of circulating_share in the profile
\* succeeds and the turnover rate is computed.
C7_TurnoverLookupSucceeds ==
    \A k \in 1..Len(universe) :
        (Processed(k) /\ FirstFailedStage(universe[k]) >= 4) =>
            /\ "turnover_rate" \in StepsOf(k)
            /\ LogOf(k).exc = "none"

MaxRecords == 3

SeqsUpTo(S, n) == UNION {[1..m -> S] : m \in 0..n}

DecodeDayRecords ==
    {DayRecord(TARGET_DATE_INT - d, close, 100) : d \in 0..2, close \in {1000, 1010}}

DecodeChipRecords ==
    {[date |-> TARGET_DATE_INT - d, bits |-> b] :
        d \in 0..1, b \in {FloatBits.f85, FloatBits.f69_5}}

DecodeInputs ==
    {[format |-> "day", records |-> r, tail |-> t] :
        r \in SeqsUpTo(DecodeDayRecords, MaxRecords),
        t \in {0, 1, DAY_RECORD_WIDTH - 1}}
    \cup
    {[format |-> "chip", records |-> r, tail |-> t] :
        r \in SeqsUpTo(DecodeChipRecords, MaxRecords),
        t \in {0, 1, CHIP_RECORD_WIDTH - 1}}

StreamOf(a) ==
    IF a.format = "day"
        THEN Flatten([k \in 1..Len(a.records) |-> EncodeDay(a.records[k])],
                     DAY_RECORD_WIDTH) \o Garbage(a.tail)
        ELSE Flatten([k \in 1..Len(a.records) |-> EncodeChip(a.records[k])],
                     CHIP_RECORD_WIDTH) \o Garbage(a.tail)

NoRun ==
    /\ universe = <<>>
    /\ repoExists = TRUE
    /\ basic_df = <<>>
    /\ ts_codes = <<>>
    /\ i = 0
    /\ final_selected = <<>>
    /\ outcome = "running"
    /\ log = <<>>

InitDecode ==
    /\ arg \in DecodeInputs
    /\ ret = NoneValue
    /\ pc = "call"
    /\ NoRun

\* parse_tdx_day_file: the records of the loop, and the frame returned
DecodeDay ==
    /\ pc = "call"
    /\ arg.format = "day"
    /\ ret' = [data |-> DayDecodeLoop(StreamOf(arg), 0, <<>>),
               df |-> parse_tdx_day_file(StreamOf(arg))]
    /\ pc' = "returned"
    /\ UNCHANGED <<universe, repoExists, basic_df, ts_codes, i, final_selected,
                   outcome, log, arg>>

\* parse_tdx_chip_data: the records of the loop, and the value returned
DecodeChip ==
    /\ pc = "call"
    /\ arg.format = "chip"
    /\ ret' = [data |-> ChipDecodeLoop(StreamOf(arg), 0, <<>>),
               value |-> parse_tdx_chip_data(File(StreamOf(arg)), TARGET_DATE)]
    /\ pc' = "returned"
    /\ UNCHANGED <<universe, repoExists, basic_df, ts_codes, i, final_selected,
                   outcome, log, arg>>

NextDecode == DecodeDay \/ DecodeChip

SpecDecode == InitDecode /\ [][NextDecode]_vars

\* The value of a float32 bit pattern of FloatBits, in halves
HalvesOfBits(b) ==
    CASE b = FloatBits.f85 -> 170
      [] b = FloatBits.f70 -> 140
      [] b = FloatBits.f69_5 -> 139
      [] b = FloatBits.zero -> 0

RecordWidth(a) == IF a.format = "day" THEN DAY_RECORD_WIDTH ELSE CHIP_RECORD_WIDTH

\* C5: a stream of length L decodes to exactly floor(L / W) records, the
\* complete leading records in input order; the trailing short chunk is
\* dropped and no complete record is lost.
C5_CompleteLeadingRecords ==
    pc = "returned" =>
        /\ Len(ret.data) = Len(StreamOf(arg)) \div RecordWidth(arg)
        /\ Len(ret.data) = Len(arg.records)
        /\ \A k \in 1..Len(arg.records) :
              IF arg.format = "day"
                  THEN /\ ret.data[k].date = arg.records[k].date
                       /\ ret.data[k].close = arg.records[k].close
                       /\ ret.data[k].vol = arg.records[k].vol
                  ELSE /\ ret.data[k].date = arg.records[k].date
                       /\ ret.data[k].concentration_70.num * 2 =
                              HalvesOfBits(arg.records[k].bits) *
                                  ret.data[k].concentration_70.den

\* C5 witness: a daily-bar stream of three records and a short trailing
\* chunk was decoded to three records.
C5_Witness ==
    /\ pc = "returned"
    /\ arg.format = "day"
    /\ arg.tail > 0
    /\ Len(arg.records) = 3
    /\ Len(ret.data) = 3

\* C8: the frame parse_tdx_day_file returns has trade dates that are
\* strictly increasing as YYYYMMDD integers, whatever the order and
\* multiplicity of the dates in the file, and the bar taken as the previous
\* trading day is dated before the target date.
C8_StrictlyIncreasingDates ==
    (pc = "returned" /\ arg.format = "day") =>
        /\ \A k \in 1..(Len(ret.df) - 1) :
              StrToInt(ret.df[k].trade_date) < StrToInt(ret.df[k + 1].trade_date)
        /\ LET prev == get_prev_trade_date(ret.df, TARGET_DATE)
           IN  prev # NoneValue => StrToInt(prev.v) < TARGET_DATE_INT

(***************************************************************************)
(* The box-breakout stage applied to decoded series: BOX_DAYS bars before  *)
(* the target date, give or take BoxSlack, a bar that closes higher than   *)
(* the others at the near end of the window, at its far end or just        *)
(* outside it, with a later bar or without, in a file in either order      *)
(***************************************************************************)
BoxSlack == 2

BoxInputs ==
    {[Series EXCEPT !.n = n, !.spike = sp, !.spikeClose = sc, !.targetClose = tc,
                    !.after = af, !.order = ord] :
        n \in (BOX_DAYS - BoxSlack)..(BOX_DAYS + BoxSlack),
        sp \in {0, 1, BOX_DAYS, BOX_DAYS + 1},
        sc \in {1002, 1100},
        tc \in {1004, 1006, 1010, 1200},
        af \in {0, 1},
        ord \in {"asc", "desc"}}

InitBox ==
    /\ arg \in BoxInputs
    /\ ret = NoneValue
    /\ pc = "call"
    /\ NoRun

\* lines 237-240 on the frame of lines 192 and 204: the tuple check_box_break
\* returns, and what the unpacking and the test make of it
BoxStage ==
    /\ pc = "call"
    /\ \E day_df \in {calculate_ma(parse_tdx_day_file(DayFileOf(arg).bytes), MA_LIST)} :
       \E c \in {StageBox([Locals(<<>>, <<>>, DayFileOf(arg), NoFile)
                             EXCEPT !.day_df = day_df,
                                    !.target_idx = IndexOf(day_df, TARGET_DATE)])} :
          ret' = [t |-> c.box, status |-> c.status, stage |-> c.stage, exc |-> c.exc]
    /\ pc' = "returned"
    /\ UNCHANGED <<universe, repoExists, basic_df, ts_codes, i, final_selected,
                   outcome, log, arg>>

NextBox == BoxStage

SpecBox == InitBox /\ [][NextBox]_vars

\* The close of the bar d trading days before the target, and the highest
\* close of the n bars before the target
CloseBefore(s, d) == IF s.spike = d THEN s.spikeClose ELSE s.base

HighestBefore(s, n) ==
    CHOOSE m \in {CloseBefore(s, d) : d \in 1..n} :
        \A d \in 1..n : CloseBefore(s, d) <= m

\* C4: with fewer than BOX_DAYS bars before the target date (the longest
\* moving average being defined), the box computation reports no breakout
\* whatever the closes, the instrument is excluded at the box stage and the
\* screening goes on.
C4_InsufficientWindowExcludes ==
    (pc = "returned" /\ PriorBars(arg) < BOX_DAYS /\ AveragesDefined(arg)) =>
        /\ ret.t[1] = FALSE
        /\ ret.status = "continue"
        /\ ret.stage = 7

Conditions == <<"volume", "turnover", "chip", "box", "ma_break">>

Preparation == <<"series", "ma", "extract", "turnover_rate">>

InsertAt(s, q, x) == SubSeq(s, 1, q) \o <<x>> \o SubSeq(s, q + 1, Len(s))

\* The order of the program: the cap first, then the loop body
ProgramOrder == InsertAt(LoopBodyOrder, 0, "cap")

PermutedOrders ==
    {InsertAt(Preparation \o [k \in 1..Len(Conditions) |-> Conditions[p[k]]], q, "cap") :
        p \in {f \in [1..Len(Conditions) -> 1..Len(Conditions)] :
                  \A a, b \in 1..Len(Conditions) : a # b => f[a] # f[b]},
        q \in 0..(Len(Preparation) + Len(Conditions))}

\* The run over the rows of the table with the stages in `order`: what it
\* ends with, and the codes selected
RECURSIVE RunFrom(_, _, _, _, _)
RunFrom(order, u, table, k, selected) ==
    IF k > Len(table) THEN [outcome |-> "results", selected |-> selected]
    ELSE LET ts_code == table[k]["ts_code"]
             status  == RunSteps(order, 1,
                            Locals(ts_code, table, DayPath(u, ts_code),
                                   ChipPath(u, ts_code))).status
         IN  IF status = "raise" THEN [outcome |-> "aborted", selected |-> <<>>]
             ELSE RunFrom(order, u, table, k + 1,
                          IF status = "run" THEN Append(selected, ts_code)
                                            ELSE selected)

RunInOrder(order, u) == RunFrom(order, u, get_stock_basic_info(Csv(u)), 1, <<>>)

PermUniverses ==
    { <<Instrument>>,
      <<[Instrument EXCEPT !.cap = 1500000]>>,
      <<[Instrument EXCEPT !.cap = 1500000, !.day.present = FALSE]>> }

InitPerm ==
    /\ arg \in {[u |-> u, order |-> o] : u \in PermUniverses, o \in PermutedOrders}
    /\ ret = NoneValue
    /\ pc = "call"
    /\ NoRun

EvalOrders ==
    /\ pc = "call"
    /\ ret' = [program |-> RunInOrder(ProgramOrder, arg.u),
               permuted |-> RunInOrder(arg.order, arg.u)]
    /\ pc' = "returned"
    /\ UNCHANGED <<universe, repoExists, basic_df, ts_codes, i, final_selected,
                   outcome, log, arg>>

NextPerm == EvalOrders

SpecPerm == InitPerm /\ [][NextPerm]_vars

\* C10: the stages evaluated in any permuted order give the same final
\* membership and the same run outcome as in the order of the program.
C10_OrderIndependent ==
    pc = "returned" => ret.permuted = ret.program
====
